---------------------------- MODULE Spec2Model ----------------------------
(* A model of the CHIP-8 interpreter of src/main.rs: the CPU struct, its   *)
(* run loop (one action per arm of the opcode match) and the Display.      *)
EXTENDS Integers, Sequences, FiniteSets, TLC

VARIABLES
    registers,           \* CPU.registers: [u8; 16]
    register_I,          \* CPU.register_I: u16
    position_in_memory,  \* CPU.position_in_memory: usize
    memory,              \* CPU.memory: the bytes from address 512 that main copied, the rest being 0
    stack,               \* CPU.stack: [u16; 16]
    stack_pointer,       \* CPU.stack_pointer: usize
    pixels,              \* Display.pixels, as the set of <<row, column>> that are true
    i,                   \* the local counter of CPU::run
    status,              \* where run is: "Running", "Halted", "Stopped", "Panicked"
    panic,               \* the panic that ended run, [msg, opcode]
    overflow_checks,     \* the build: TRUE when integer overflow panics (debug)
    prev,                \* history: the machine before the last iteration of the loop,
                         \* with the opcode it dispatched (-1: none was dispatched)
    prev2                \* history: the machine before the iteration before that

vars == <<registers, register_I, position_in_memory, memory, stack,
          stack_pointer, pixels, i, status, panic, overflow_checks, prev, prev2>>

-----------------------------------------------------------------------------
(* Sizes of the machine.                                                   *)

MemorySize == 4096
NumRegisters == 16
StackSize == 16
DisplayWidth == 64
DisplayHeight == 32
ProgramStart == 512
MaxInstructions == 100

-----------------------------------------------------------------------------
(* Bounds of the checked inputs.                                           *)

\* how many byte values are taken next to each of 0, 128 and 255
MaxByteSample == 2

-----------------------------------------------------------------------------
(* Bit operations on bytes.                                                *)

RECURSIVE BitAnd(_, _, _)
BitAnd(a, b, w) ==
    IF w = 0 THEN 0
    ELSE (IF a % 2 = 1 /\ b % 2 = 1 THEN 1 ELSE 0) + 2 * BitAnd(a \div 2, b \div 2, w - 1)

RECURSIVE BitOr(_, _, _)
BitOr(a, b, w) ==
    IF w = 0 THEN 0
    ELSE (IF a % 2 = 1 \/ b % 2 = 1 THEN 1 ELSE 0) + 2 * BitOr(a \div 2, b \div 2, w - 1)

RECURSIVE BitXor(_, _, _)
BitXor(a, b, w) ==
    IF w = 0 THEN 0
    ELSE (IF a % 2 # b % 2 THEN 1 ELSE 0) + 2 * BitXor(a \div 2, b \div 2, w - 1)

RECURSIVE Pow2(_)
Pow2(k) == IF k = 0 THEN 1 ELSE 2 * Pow2(k - 1)

-----------------------------------------------------------------------------
(* Fetch and decode.                                                       *)

\* read_opcode with the two bytes in little-endian order
read_opcode_le(mem, p) ==
    (IF p + 1 >= ProgramStart /\ p + 1 < ProgramStart + Len(mem)
     THEN mem[p + 1 - ProgramStart + 1] ELSE 0) * 256
    + (IF p >= ProgramStart /\ p < ProgramStart + Len(mem)
       THEN mem[p - ProgramStart + 1] ELSE 0)

\* memory[a], for a in 0..4095
byte_at(mem, a) ==
    IF a >= ProgramStart /\ a < ProgramStart + Len(mem) THEN mem[a - ProgramStart + 1] ELSE 0

read_opcode(mem, p) == byte_at(mem, p) * 256 + byte_at(mem, p + 1)

nibble_c(opcode) == (opcode \div 4096) % 16
nibble_x(opcode) == (opcode \div 256) % 16
nibble_y(opcode) == (opcode \div 16) % 16
nibble_d(opcode) == opcode % 16
field_nnn(opcode) == opcode % 4096
field_kk(opcode) == opcode % 256

NoPanic == [msg |-> "none", opcode |-> -1]
Panic(m) == [msg |-> m, opcode |-> -1]


-----------------------------------------------------------------------------
(* The instruction handlers of impl CPU, as functions of the fields they   *)
(* read. A handler that can panic returns the panic with the fields as     *)
(* they are when it panics.                                                *)

\* call that pushes the address it jumps to
call_push_target(stk, sp, pc, addr) ==
    IF sp >= StackSize
    THEN [panic |-> Panic("index out of bounds"), stack |-> stk,
          stack_pointer |-> sp, position_in_memory |-> pc]
    ELSE [panic |-> NoPanic, stack |-> [stk EXCEPT ![sp] = addr],
          stack_pointer |-> sp + 1, position_in_memory |-> addr]

\* call that pushes the address of the call opcode, not of the one after it
call_push_fetch_address(stk, sp, pc, addr) ==
    IF sp >= StackSize
    THEN [panic |-> Panic("index out of bounds"), stack |-> stk,
          stack_pointer |-> sp, position_in_memory |-> pc]
    ELSE [panic |-> NoPanic, stack |-> [stk EXCEPT ![sp] = pc - 2],
          stack_pointer |-> sp + 1, position_in_memory |-> addr]

\* CPU::call. The guard lets sp = stack.len() through to the indexing.
call(stk, sp, pc, addr) ==
    IF sp > StackSize
    THEN [panic |-> Panic("Stack overflow"), stack |-> stk,
          stack_pointer |-> sp, position_in_memory |-> pc]
    ELSE IF sp >= StackSize
    THEN [panic |-> Panic("index out of bounds"), stack |-> stk,
          stack_pointer |-> sp, position_in_memory |-> pc]
    ELSE [panic |-> NoPanic, stack |-> [stk EXCEPT ![sp] = pc % 65536],
          stack_pointer |-> sp + 1, position_in_memory |-> addr]

\* ret that, on an empty stack, takes slot 0 as the return address and goes on
ret_no_check(stk, sp, pc) ==
    IF sp = 0
    THEN [panic |-> NoPanic, stack_pointer |-> 0, position_in_memory |-> stk[0]]
    ELSE [panic |-> NoPanic, stack_pointer |-> sp - 1,
          position_in_memory |-> stk[sp - 1]]

\* CPU::ret
ret(stk, sp, pc) ==
    IF sp = 0
    THEN [panic |-> Panic("Stack underflow"), stack_pointer |-> sp,
          position_in_memory |-> pc]
    ELSE [panic |-> NoPanic, stack_pointer |-> sp - 1,
          position_in_memory |-> stk[sp - 1]]

jmp_to_addr(addr) == addr

skip_if_eq(regs, pc, x, kk) == IF regs[x] = kk THEN pc + 2 ELSE pc

\* skip_if_neq with the comparison of skip_if_eq
skip_if_neq_as_eq(regs, pc, r, kk) == IF regs[r] = kk THEN pc + 2 ELSE pc

skip_if_neq(regs, pc, r, kk) == IF regs[r] # kk THEN pc + 2 ELSE pc

skip_if_eq_registers(regs, pc, x, y) == IF regs[x] = regs[y] THEN pc + 2 ELSE pc

skip_if_neq_registers(regs, pc, x, y) == IF regs[x] # regs[y] THEN pc + 2 ELSE pc

load_in_register(regs, x, kk) == [regs EXCEPT ![x] = kk]

\* CPU::add_xkk: a plain u8 addition, which panics in a build with overflow checks
add_xkk(regs, x, kk, checks) ==
    LET arg1 == regs[x] IN
    IF checks /\ arg1 + kk > 255
    THEN [panic |-> Panic("attempt to add with overflow"), registers |-> regs]
    ELSE [panic |-> NoPanic, registers |-> [regs EXCEPT ![x] = (arg1 + kk) % 256]]

set_xy(regs, x, y) == [regs EXCEPT ![x] = regs[y]]

or_xy(regs, x, y) == [regs EXCEPT ![x] = BitOr(regs[x], regs[y], 8)]

and_xy(regs, x, y) == [regs EXCEPT ![x] = BitAnd(regs[x], regs[y], 8)]

xor_xy(regs, x, y) == [regs EXCEPT ![x] = BitXor(regs[x], regs[y], 8)]

\* add_xy with the flag written before register x, so that x = 0xF keeps the sum
add_xy_flag_first(regs, x, y) ==
    LET arg1 == regs[x]
        arg2 == regs[y]
        regs1 == [regs EXCEPT ![15] = IF arg1 + arg2 > 255 THEN 1 ELSE 0]
    IN  [regs1 EXCEPT ![x] = (arg1 + arg2) % 256]

\* CPU::add_xy: overflowing_add, then the flag written after register x
add_xy(regs, x, y) ==
    LET arg1 == regs[x]
        arg2 == regs[y]
        val == (arg1 + arg2) % 256
        overflow == arg1 + arg2 > 255
        regs1 == [regs EXCEPT ![x] = val]
    IN  [regs1 EXCEPT ![15] = IF overflow THEN 1 ELSE 0]

\* CPU::sub_xy: a plain u8 subtraction, then the flag from arg1 > arg2
sub_xy(regs, x, y, checks) ==
    LET arg1 == regs[x]
        arg2 == regs[y]
        regs1 == [regs EXCEPT ![x] = (arg1 - arg2 + 256) % 256]
    IN  IF checks /\ arg1 < arg2
        THEN [panic |-> Panic("attempt to subtract with overflow"), registers |-> regs]
        ELSE [panic |-> NoPanic,
              registers |-> [regs1 EXCEPT ![15] = IF arg1 > arg2 THEN 1 ELSE 0]]

shr_x(regs, x) ==
    LET val_x == regs[x]
        regs1 == [regs EXCEPT ![x] = regs[x] \div 2]
    IN  [regs1 EXCEPT ![15] = val_x % 2]

\* CPU::subn_xy
subn_xy(regs, x, y, checks) ==
    LET arg1 == regs[x]
        arg2 == regs[y]
        regs1 == [regs EXCEPT ![x] = (arg2 - arg1 + 256) % 256]
    IN  IF checks /\ arg2 < arg1
        THEN [panic |-> Panic("attempt to subtract with overflow"), registers |-> regs]
        ELSE [panic |-> NoPanic,
              registers |-> [regs1 EXCEPT ![15] = IF arg2 > arg1 THEN 1 ELSE 0]]

\* shl_x with the flag taken after the shift
shl_x_flag_after(regs, x) ==
    LET regs1 == [regs EXCEPT ![x] = (regs[x] * 2) % 256]
    IN  [regs1 EXCEPT ![15] = regs1[x] \div 128]

shl_x(regs, x) ==
    LET val_x == regs[x]
        regs1 == [regs EXCEPT ![x] = (regs[x] * 2) % 256]
    IN  [regs1 EXCEPT ![15] = val_x \div 128]

set_I(addr) == addr

jmp_to_addr_x(regs, x, addr) == (addr + regs[x]) % 65536

set_rand_x(regs, x, kk) == [regs EXCEPT ![x] = BitAnd(1, kk, 8)]

\* Display::clear: its body is commented out
clear(px) == px

\* draw_pixel that only turns pixels on: a set bit on a lit pixel reports the
\* collision and leaves the pixel lit
draw_pixel_or(px, vf, sprite, yy, xx, col) ==
    LET p == BitAnd(sprite, Pow2(7 - col), 8)
    IN  IF p > 0 /\ <<yy, xx>> \in px THEN [pixels |-> px, vf |-> 1]
        ELSE IF p > 0 THEN [pixels |-> px \cup {<<yy, xx>>}, vf |-> vf]
        ELSE [pixels |-> px, vf |-> vf]

\* One pixel of CPU::draw: sprite bit p against pixels[y][x]
draw_pixel(px, vf, sprite, yy, xx, col) ==
    LET p == BitAnd(sprite, Pow2(7 - col), 8)
        on == <<yy, xx>> \in px
    IN  IF p > 0 /\ on THEN [pixels |-> px \ {<<yy, xx>>}, vf |-> 1]
        ELSE IF (p = 0 /\ on) \/ (p > 0 /\ ~on)
        THEN [pixels |-> px \cup {<<yy, xx>>}, vf |-> vf]
        ELSE [pixels |-> px, vf |-> vf]

\* The inner loop of CPU::draw (for j in 0..8) from column `col` on
RECURSIVE draw_row(_, _, _, _, _, _)
draw_row(px, vf, sprite, yy, start_x, col) ==
    IF col >= 8 THEN [panic |-> NoPanic, pixels |-> px, vf |-> vf]
    ELSE IF yy >= DisplayHeight \/ start_x + col >= DisplayWidth
    THEN [panic |-> Panic("index out of bounds"), pixels |-> px, vf |-> vf]
    ELSE LET r == draw_pixel(px, vf, sprite, yy, start_x + col, col)
         IN  draw_row(r.pixels, r.vf, sprite, yy, start_x, col + 1)

\* The outer loop of CPU::draw (for i in 0..n) from sprite row `row` on
RECURSIVE draw_rows(_, _, _, _, _, _, _, _)
draw_rows(mem, reg_I, start_x, start_y, n, row, px, vf) ==
    IF row >= n THEN [panic |-> NoPanic, pixels |-> px, vf |-> vf]
    ELSE IF reg_I + row >= MemorySize
    THEN [panic |-> Panic("index out of bounds"), pixels |-> px, vf |-> vf]
    ELSE LET r == draw_row(px, vf, byte_at(mem, reg_I + row), start_y + row, start_x, 0)
         IN  IF r.panic.msg # "none" THEN r
             ELSE draw_rows(mem, reg_I, start_x, start_y, n, row + 1, r.pixels, r.vf)

\* draw without `self.registers[0xF] = 0`: the flag starts as it was
draw_keep_flag(mem, regs, reg_I, px, ix, iy, n) ==
    LET start_x == regs[ix] % DisplayWidth
        start_y == regs[iy] % DisplayHeight
        r == draw_rows(mem, reg_I, start_x, start_y, n, 0, px, regs[15])
    IN  [panic |-> r.panic, pixels |-> r.pixels,
         registers |-> [regs EXCEPT ![15] = r.vf]]

\* CPU::draw
draw(mem, regs, reg_I, px, ix, iy, n) ==
    LET start_x == regs[ix] % DisplayWidth
        start_y == regs[iy] % DisplayHeight
        r == draw_rows(mem, reg_I, start_x, start_y, n, 0, px, 0)
    IN  [panic |-> r.panic, pixels |-> r.pixels,
         registers |-> [regs EXCEPT ![15] = r.vf]]

-----------------------------------------------------------------------------
(* The run loop. Each action is one iteration of the loop of CPU::run: the *)
(* count, the fetch, the advance of position_in_memory by 2 and the arm of *)
(* the match that the opcode selects.                                      *)

\* the machine before the opcode that is being dispatched
Snapshot(op) ==
    [opcode |-> op, at |-> position_in_memory, registers |-> registers,
     register_I |-> register_I, stack |-> stack, stack_pointer |-> stack_pointer,
     pixels |-> pixels]

NoSnapshot ==
    [opcode |-> -1, at |-> -1, registers |-> [r \in 0..(NumRegisters - 1) |-> 0],
     register_I |-> 0, stack |-> [s \in 0..(StackSize - 1) |-> 0], stack_pointer |-> 0,
     pixels |-> {}]

\* Fetched with only the first byte of the opcode looked for in memory
Fetched_first_byte ==
    /\ status = "Running"
    /\ i + 1 <= MaxInstructions
    /\ position_in_memory < MemorySize

\* the loop is entered, the count allows one more opcode and both bytes are in memory
Fetched ==
    /\ status = "Running"
    /\ i + 1 <= MaxInstructions
    /\ position_in_memory + 1 < MemorySize

opcode == read_opcode(memory, position_in_memory)
c == nibble_c(opcode)
x == nibble_x(opcode)
y == nibble_y(opcode)
d == nibble_d(opcode)
nnn == field_nnn(opcode)
kk == field_kk(opcode)

\* the patterns of the match that have an arm
Implemented(op) ==
    LET cc == nibble_c(op)
        dd == nibble_d(op)
    IN  \/ op \in {0, 224, 238}
        \/ cc \in {1, 2, 3, 4, 6, 7, 10, 11, 12, 13}
        \/ cc = 5 /\ dd = 0
        \/ cc = 8 /\ dd \in {0, 1, 2, 3, 4, 5, 6, 7, 14}
        \/ cc = 9 /\ dd = 0

\* an iteration that also stores V0 in the first byte of the program
Exec_store(regs, rI, pc, stk, sp, px, pn) ==
    /\ registers' = regs
    /\ register_I' = rI
    /\ position_in_memory' = pc
    /\ stack' = stk
    /\ stack_pointer' = sp
    /\ pixels' = px
    /\ panic' = pn
    /\ status' = IF pn.msg = "none" THEN "Running" ELSE "Panicked"
    /\ i' = i + 1
    /\ prev' = Snapshot(opcode)
    /\ prev2' = prev
    /\ memory' = [memory EXCEPT ![1] = regs[0]]
    /\ UNCHANGED overflow_checks

\* the state an iteration leaves: the fields as given, the count and the history
Exec(regs, rI, pc, stk, sp, px, pn) ==
    /\ registers' = regs
    /\ register_I' = rI
    /\ position_in_memory' = pc
    /\ stack' = stk
    /\ stack_pointer' = sp
    /\ pixels' = px
    /\ panic' = pn
    /\ status' = IF pn.msg = "none" THEN "Running" ELSE "Panicked"
    /\ i' = i + 1
    /\ prev' = Snapshot(opcode)
    /\ prev2' = prev
    /\ UNCHANGED <<memory, overflow_checks>>

\* only the registers change
ExecRegs(regs) ==
    Exec(regs, register_I, position_in_memory + 2, stack, stack_pointer, pixels, NoPanic)

\* only position_in_memory changes
ExecJump(pc) ==
    Exec(registers, register_I, pc, stack, stack_pointer, pixels, NoPanic)

\* a handler's result r, with registers and possibly a panic
ExecChecked(r) ==
    Exec(r.registers, register_I, position_in_memory + 2, stack, stack_pointer, pixels, r.panic)

\* the break of the count taken for the halt: the run is marked as halted
Break_marks_halted ==
    /\ status = "Running"
    /\ i + 1 > MaxInstructions
    /\ i' = i + 1
    /\ status' = "Halted"
    /\ prev' = Snapshot(-1)
    /\ prev2' = prev
    /\ UNCHANGED <<registers, register_I, position_in_memory, memory, stack,
                   stack_pointer, pixels, panic, overflow_checks>>

\* i > 100: break
Break ==
    /\ status = "Running"
    /\ i + 1 > MaxInstructions
    /\ i' = i + 1
    /\ status' = "Stopped"
    /\ prev' = Snapshot(-1)
    /\ prev2' = prev
    /\ UNCHANGED <<registers, register_I, position_in_memory, memory, stack,
                   stack_pointer, pixels, panic, overflow_checks>>

\* read_opcode indexes memory at p or p + 1 past its end
FetchPanic ==
    /\ status = "Running"
    /\ i + 1 <= MaxInstructions
    /\ position_in_memory + 1 >= MemorySize
    /\ i' = i + 1
    /\ status' = "Panicked"
    /\ panic' = Panic("index out of bounds")
    /\ prev' = Snapshot(-1)
    /\ prev2' = prev
    /\ UNCHANGED <<registers, register_I, position_in_memory, memory, stack,
                   stack_pointer, pixels, overflow_checks>>

\* (0, 0, 0, 0) => return
Halt ==
    /\ Fetched
    /\ opcode = 0
    /\ i' = i + 1
    /\ position_in_memory' = position_in_memory + 2
    /\ status' = "Halted"
    /\ prev' = Snapshot(opcode)
    /\ prev2' = prev
    /\ UNCHANGED <<registers, register_I, memory, stack, stack_pointer, pixels,
                   panic, overflow_checks>>

\* (0, 0, 0xE, 0) => self.display.clear()
ClearScreen ==
    /\ Fetched
    /\ opcode = 224
    /\ Exec(registers, register_I, position_in_memory + 2, stack, stack_pointer,
            clear(pixels), NoPanic)

\* (0, 0, 0xE, 0xE) => self.ret()
Ret ==
    /\ Fetched
    /\ opcode = 238
    /\ LET r == ret(stack, stack_pointer, position_in_memory + 2)
       IN  Exec(registers, register_I, r.position_in_memory, stack, r.stack_pointer,
                pixels, r.panic)

Jmp == Fetched /\ c = 1 /\ ExecJump(jmp_to_addr(nnn))

Call ==
    /\ Fetched
    /\ c = 2
    /\ LET r == call(stack, stack_pointer, position_in_memory + 2, nnn)
       IN  Exec(registers, register_I, r.position_in_memory, r.stack, r.stack_pointer,
                pixels, r.panic)

SkipIfEq == Fetched /\ c = 3 /\ ExecJump(skip_if_eq(registers, position_in_memory + 2, x, kk))

SkipIfNeq == Fetched /\ c = 4 /\ ExecJump(skip_if_neq(registers, position_in_memory + 2, x, kk))

SkipIfEqRegisters ==
    Fetched /\ c = 5 /\ d = 0
    /\ ExecJump(skip_if_eq_registers(registers, position_in_memory + 2, x, y))

LoadInRegister == Fetched /\ c = 6 /\ ExecRegs(load_in_register(registers, x, kk))

AddXkk == Fetched /\ c = 7 /\ ExecChecked(add_xkk(registers, x, kk, overflow_checks))

SetXY == Fetched /\ c = 8 /\ d = 0 /\ ExecRegs(set_xy(registers, x, y))

OrXY == Fetched /\ c = 8 /\ d = 1 /\ ExecRegs(or_xy(registers, x, y))

AndXY == Fetched /\ c = 8 /\ d = 2 /\ ExecRegs(and_xy(registers, x, y))

XorXY == Fetched /\ c = 8 /\ d = 3 /\ ExecRegs(xor_xy(registers, x, y))

AddXY == Fetched /\ c = 8 /\ d = 4 /\ ExecRegs(add_xy(registers, x, y))

SubXY == Fetched /\ c = 8 /\ d = 5 /\ ExecChecked(sub_xy(registers, x, y, overflow_checks))

ShrX == Fetched /\ c = 8 /\ d = 6 /\ ExecRegs(shr_x(registers, x))

SubnXY == Fetched /\ c = 8 /\ d = 7 /\ ExecChecked(subn_xy(registers, x, y, overflow_checks))

ShlX == Fetched /\ c = 8 /\ d = 14 /\ ExecRegs(shl_x(registers, x))

SkipIfNeqRegisters ==
    Fetched /\ c = 9 /\ d = 0
    /\ ExecJump(skip_if_neq_registers(registers, position_in_memory + 2, x, y))

SetI ==
    Fetched /\ c = 10
    /\ Exec(registers, set_I(nnn), position_in_memory + 2, stack, stack_pointer,
            pixels, NoPanic)

JmpToAddrX == Fetched /\ c = 11 /\ ExecJump(jmp_to_addr_x(registers, x, nnn))

SetRandX == Fetched /\ c = 12 /\ ExecRegs(set_rand_x(registers, x, kk))

Draw ==
    /\ Fetched
    /\ c = 13
    /\ LET r == draw(memory, registers, register_I, pixels, x, y, d)
       IN  Exec(r.registers, register_I, position_in_memory + 2, stack, stack_pointer,
                r.pixels, r.panic)

\* the last arm as a silent no-op: the opcode is skipped and the loop goes on
Todo_skip ==
    /\ Fetched
    /\ ~Implemented(opcode)
    /\ Exec(registers, register_I, position_in_memory + 2, stack, stack_pointer,
            pixels, NoPanic)

\* _ => todo!("opcode: {:04x}", opcode)
Todo ==
    /\ Fetched
    /\ ~Implemented(opcode)
    /\ Exec(registers, register_I, position_in_memory + 2, stack, stack_pointer,
            pixels, [msg |-> "not yet implemented", opcode |-> opcode])

-----------------------------------------------------------------------------
(* The program images run is checked on. main copies the bytes of the      *)
(* program file to memory from address 512; everything else is zero.       *)

Op(cc, xx, yy, dd) == cc * 4096 + xx * 256 + yy * 16 + dd
OpK(cc, xx, b) == cc * 4096 + xx * 256 + b
OpN(cc, addr) == cc * 4096 + addr

\* the bytes of a sequence of opcodes, big-endian
Bytes(ops) ==
    [k \in 1..(2 * Len(ops)) |->
        IF k % 2 = 1 THEN ops[(k + 1) \div 2] \div 256 ELSE ops[k \div 2] % 256]

\* the address of the k-th opcode (from 0) of a program
At(k) == ProgramStart + 2 * k

SampleBytes ==
    {b \in 0..255 : \/ b < MaxByteSample
                    \/ b > 255 - MaxByteSample
                    \/ (b >= 128 - MaxByteSample /\ b < 128 + MaxByteSample)}

SampleRegs == {0, 1, 15}

\* the pairs of registers x, y: different, the same, the flag register as either
SampleRegPairs == {<<0, 1>>, <<1, 1>>, <<15, 1>>, <<1, 15>>, <<15, 15>>}

\* the opcodes on two registers: 8xy0..8xy7, 8xyE, 5xy0, 9xy0 and three without an arm
RegOps(xx, yy) ==
    {Op(8, xx, yy, dd) : dd \in {0, 1, 2, 3, 4, 5, 6, 7, 8, 14}}
        \cup {Op(5, xx, yy, 0), Op(9, xx, yy, 0), Op(5, xx, yy, 1), Op(9, xx, yy, 1)}

\* load a and b in registers x and y, then one opcode on them
RegPrograms ==
    UNION {{Bytes(<<OpK(6, t[1][1], t[2]), OpK(6, t[1][2], t[3]), op, 0, 0>>) :
                op \in RegOps(t[1][1], t[1][2])} :
            t \in SampleRegPairs \X SampleBytes \X SampleBytes}

\* load a in register x, then one opcode with the byte b: 3xkk, 4xkk, 7xkk, Cxkk
ImmPrograms ==
    {Bytes(<<OpK(6, t[1], t[2]), OpK(t[4], t[1], t[3]), 0, 0>>) :
        t \in SampleRegs \X SampleBytes \X SampleBytes \X {3, 4, 7, 12}}

\* calls, returns and jumps
ControlPrograms ==
    {   \* the scenario of main's test program: 5 + 5
        Bytes(<<24581, 24837, 32788, 0>>),
        \* a call to a return, then halt
        Bytes(<<OpN(2, At(2)), 0, 238>>),
        \* the same, one level down
        Bytes(<<OpN(2, At(2)), 0, OpN(2, At(4)), 238, 238>>),
        \* a call, called from a call, to a return that is not the next opcode
        Bytes(<<OpN(2, At(3)), OpN(2, At(3)), 0, OpK(6, 0, 7), 238>>),
        \* a call to itself, and the same behind a load
        Bytes(<<OpN(2, At(0))>>),
        Bytes(<<OpK(6, 1, 9), OpN(2, At(1))>>),
        \* sixteen nested calls and as many returns
        Bytes(<<OpK(7, 0, 1), OpK(3, 0, 17), OpN(2, At(0)), 238>>),
        \* a return on an empty stack, first and after a call has returned
        Bytes(<<238>>),
        Bytes(<<OpN(2, At(2)), 238, 238>>),
        \* jumps: to itself, around a loop, to the last bytes of memory
        Bytes(<<OpN(1, At(0))>>),
        Bytes(<<OpK(7, 0, 3), OpN(1, At(0))>>),
        Bytes(<<OpN(1, At(2)), 0, OpN(1, At(1))>>),
        Bytes(<<OpN(1, 4095)>>),
        Bytes(<<OpN(1, 4094)>>),
        Bytes(<<OpN(1, 4093)>>),
        \* jump-plus-offset: Bnnn adds V[x], x the first nibble of nnn
        Bytes(<<OpK(6, 15, 255), OpN(11, 4095)>>),
        Bytes(<<OpK(6, 2, 4), OpN(11, At(0)), 0, 0>>),
        Bytes(<<OpK(6, 0, 4), OpN(11, At(0)), 0, 0>>),
        \* opcodes without an arm
        Bytes(<<OpK(6, 3, 1), 291>>),
        Bytes(<<OpK(6, 3, 1), 225>>),
        Bytes(<<OpK(6, 3, 1), 57502>>),
        Bytes(<<OpK(6, 3, 1), 61447>>),
        Bytes(<<OpN(2, At(1)), 61541>>)
    }

\* a program file that fills memory to its last byte: a jump to the last
\* opcode, which is `last`
FullProgram(last) ==
    [k \in 1..(MemorySize - ProgramStart) |->
        IF k = 1 THEN OpN(1, 4094) \div 256
        ELSE IF k = 2 THEN OpN(1, 4094) % 256
        ELSE IF k = MemorySize - ProgramStart - 1 THEN last \div 256
        ELSE IF k = MemorySize - ProgramStart THEN last % 256
        ELSE 0]

FullPrograms ==
    {FullProgram(op) : op \in {OpK(6, 0, 1), OpK(3, 0, 0), OpK(4, 0, 0), OpN(2, At(1)), 238}}

\* row k of the sprite made from the byte `seed`
SpriteRow(seed, k) == (seed + 37 * k) % 256

SpriteRows(seed, n) == [k \in 1..n |-> SpriteRow(seed, k - 1)]

\* the values of the registers that give the start <<column, row>> of the draws:
\* inside the grid, against its right and bottom edges, past them, and above 63, 31
SamplePositions ==
    {<<0, 0>>, <<3, 2>>, <<56, 17>>, <<56, 18>>, <<57, 2>>, <<63, 31>>, <<67, 34>>, <<3, 31>>}
SampleHeights == {0, 1, 2, 15}

\* a background sprite drawn at (2, 1), then the sprite of `seed` drawn twice
\* at (vx, vy) through registers xx and yy, then clear-screen
DrawProgram(xx, yy, vx, vy, n, seed) ==
    Bytes(<<OpN(10, At(11)), OpK(6, 4, 2), OpK(6, 5, 1), Op(13, 4, 5, 3),
            OpK(6, xx, vx), OpK(6, yy, vy), OpN(10, At(13)),
            Op(13, xx, yy, n), Op(13, xx, yy, n), 224, 0>>)
        \o <<255, 129, 24, 0>> \o SpriteRows(seed, n)

DrawPrograms ==
    {DrawProgram(0, 1, t[1][1], t[1][2], t[2], t[3]) :
        t \in SamplePositions \X SampleHeights \X SampleBytes}
    \cup {DrawProgram(t[1][1], t[1][2], 3, 2, 2, t[2]) :
        t \in SampleRegPairs \X SampleBytes}
    \cup {Bytes(<<OpN(10, addr), Op(13, 0, 0, n), 0>>) :
        <<addr, n>> \in {4094, 4095} \X {0, 1, 2, 3}}

Programs == RegPrograms \cup ImmPrograms \cup ControlPrograms \cup FullPrograms \cup DrawPrograms

\* main: the copy of the program to memory[512..], which is otherwise zero
Load(program) == program

-----------------------------------------------------------------------------

Init ==
    /\ registers = [r \in 0..(NumRegisters - 1) |-> 0]
    /\ register_I = 0
    /\ position_in_memory = ProgramStart
    /\ memory \in {Load(program) : program \in Programs}
    /\ stack = [s \in 0..(StackSize - 1) |-> 0]
    /\ stack_pointer = 0
    /\ pixels = {}
    /\ i = 0
    /\ status = "Running"
    /\ panic = NoPanic
    /\ overflow_checks \in BOOLEAN
    /\ prev = NoSnapshot
    /\ prev2 = NoSnapshot

Next ==
    \/ Break
    \/ FetchPanic
    \/ Halt
    \/ ClearScreen
    \/ Ret
    \/ Jmp
    \/ Call
    \/ SkipIfEq
    \/ SkipIfNeq
    \/ SkipIfEqRegisters
    \/ LoadInRegister
    \/ AddXkk
    \/ SetXY
    \/ OrXY
    \/ AndXY
    \/ XorXY
    \/ AddXY
    \/ SubXY
    \/ ShrX
    \/ SubnXY
    \/ ShlX
    \/ SkipIfNeqRegisters
    \/ SetI
    \/ JmpToAddrX
    \/ SetRandX
    \/ Draw
    \/ Todo

Spec == Init /\ [][Next]_vars

\* run is one sequential loop: an iteration that can be taken is taken
FairSpec == Spec /\ WF_vars(Next)

-----------------------------------------------------------------------------
(* The last two iterations, as the properties below read them.             *)

\* the last iteration dispatched an opcode of class cc with last nibble dd
LastWas(cc, dd) ==
    prev.opcode # -1 /\ nibble_c(prev.opcode) = cc /\ nibble_d(prev.opcode) = dd

LastX == nibble_x(prev.opcode)
LastY == nibble_y(prev.opcode)
\* V[x] and V[y] before the last opcode
LastVx == prev.registers[LastX]
LastVy == prev.registers[LastY]

\* the last opcode completed: no panic, and the loop goes on
Completed == status = "Running" /\ panic = NoPanic

-----------------------------------------------------------------------------
(* C1: after add-with-carry 8xy4 on a = V[x], b = V[y], V[F] is 1 if       *)
(* a + b > 255 and 0 otherwise, V[x] is (a + b) mod 256 unless x is 0xF,   *)
(* and the instruction does not fault.                                     *)
C1_AddWithCarry ==
    LastWas(8, 4) =>
        /\ Completed
        /\ registers[15] = (IF LastVx + LastVy > 255 THEN 1 ELSE 0)
        /\ LastX # 15 => registers[LastX] + 256 * registers[15] = LastVx + LastVy

C1_Witness ==
    /\ LastWas(8, 4)
    /\ LastX # 15
    /\ LastVx + LastVy > 255
    /\ registers[15] = 1
    /\ registers[LastX] = LastVx + LastVy - 256

(* C2 as claimed: after subtract-with-borrow 8xy5 on a = V[x], b = V[y]    *)
(* (x not 0xF) the instruction has completed, V[x] is (a - b) mod 256 and  *)
(* V[F] is 1 iff a >= b. The code takes the flag from a > b, and the       *)
(* subtraction panics for a < b where overflow is checked.                 *)
C2_SubWithBorrow_Claimed ==
    (LastWas(8, 5) /\ LastX # 15) =>
        /\ Completed
        /\ registers[LastX] = (LastVx - LastVy + 256) % 256
        /\ registers[15] = (IF LastVx >= LastVy THEN 1 ELSE 0)

(* C3: after shift-right 8xy6 on v = V[x] (x not 0xF), V[F] = v mod 2 and  *)
(* V[x] = v div 2; after shift-left 8xyE, V[F] = v div 128 and             *)
(* V[x] = 2v mod 256: the flag is the bit the shift drops.                 *)
C3_Shifts ==
    /\ (LastWas(8, 6) /\ LastX # 15) =>
            /\ Completed
            /\ registers[15] \in {0, 1}
            /\ 2 * registers[LastX] + registers[15] = LastVx
    /\ (LastWas(8, 14) /\ LastX # 15) =>
            /\ Completed
            /\ registers[15] \in {0, 1}
            /\ registers[LastX] \in 0..255
            /\ registers[LastX] + 256 * registers[15] = 2 * LastVx

C3_Witness ==
    /\ LastWas(8, 14)
    /\ LastX # 15
    /\ LastVx >= 128
    /\ LastVx % 2 = 1
    /\ registers[15] = 1
    /\ registers[LastX] = 2 * LastVx - 256

(* C4 as claimed: right after clear-screen 00E0 every pixel is off. The    *)
(* body of Display::clear is commented out, so the pixels stay.            *)
C4_ClearScreen_Claimed ==
    (prev.opcode = 224) => pixels = {}

\* the last two iterations dispatched the same draw from the same I, column and row
LastTwoWereTheSameDraw ==
    /\ prev.opcode # -1
    /\ prev2.opcode = prev.opcode
    /\ nibble_c(prev.opcode) = 13
    /\ prev2.register_I = prev.register_I
    /\ prev2.registers[LastX] % DisplayWidth = LastVx % DisplayWidth
    /\ prev2.registers[LastY] % DisplayHeight = LastVy % DisplayHeight

\* the sprite of the last draw lies inside the grid, and in memory
LastDrawInside ==
    /\ (LastVx % DisplayWidth) + 8 <= DisplayWidth
    /\ (LastVy % DisplayHeight) + nibble_d(prev.opcode) <= DisplayHeight
    /\ prev.register_I + nibble_d(prev.opcode) <= MemorySize

(* C5: two draws Dxyn in a row with the same I, start column and start row, *)
(* the sprite inside the grid (and in memory), leave every pixel as it was *)
(* before the first, and the second sets V[F] = 1 if the first turned a    *)
(* pixel on.                                                               *)
C5_DrawTwice ==
    (LastTwoWereTheSameDraw /\ LastDrawInside) =>
        /\ Completed
        /\ pixels = prev2.pixels
        /\ (prev.pixels \ prev2.pixels # {}) => registers[15] = 1

C5_Witness ==
    /\ LastTwoWereTheSameDraw
    /\ LastDrawInside
    /\ prev.pixels \ prev2.pixels # {}
    /\ prev2.pixels \ prev.pixels # {}
    /\ pixels = prev2.pixels
    /\ registers[15] = 1

\* the last two iterations dispatched a call that had room on the stack, then a return
LastTwoWereCallRet ==
    /\ prev2.opcode # -1
    /\ nibble_c(prev2.opcode) = 2
    /\ prev2.stack_pointer < StackSize
    /\ prev.opcode = 238

(* C6: a call 2nnn fetched at p with fewer than 16 stack entries, then the *)
(* return 00EE at nnn, leave the program counter at p + 2 and the stack    *)
(* pointer as before the call.                                             *)
C6_CallRet ==
    LastTwoWereCallRet =>
        /\ Completed
        /\ prev.at = field_nnn(prev2.opcode)
        /\ position_in_memory = prev2.at + 2
        /\ stack_pointer = prev2.stack_pointer

C6_Witness ==
    /\ LastTwoWereCallRet
    /\ prev2.stack_pointer > 0
    /\ position_in_memory = prev2.at + 2
    /\ position_in_memory # prev.at + 2

(* C7 as claimed: a call dispatched with 16 return addresses on the stack  *)
(* ends the run in the "Stack overflow" panic of call's own check, with    *)
(* stack and stack pointer untouched. The check is sp > 16, so the call    *)
(* gets to stack[16] and panics on the index instead.                      *)
C7_StackOverflow_Claimed ==
    (prev.opcode # -1 /\ nibble_c(prev.opcode) = 2 /\ prev.stack_pointer = StackSize) =>
        /\ status = "Panicked"
        /\ panic.msg = "Stack overflow"
        /\ stack = prev.stack
        /\ stack_pointer = prev.stack_pointer

(* C8 as claimed: a return 00EE with stack pointer 0 ends the run in the   *)
(* "Stack underflow" panic, the stack pointer still 0 and the program      *)
(* counter equal to the address the opcode was fetched from.               *)
C8_StackUnderflow_Claimed ==
    (prev.opcode = 238 /\ prev.stack_pointer = 0) =>
        /\ status = "Panicked"
        /\ panic.msg = "Stack underflow"
        /\ stack_pointer = 0
        /\ position_in_memory = prev.at

(* C8, amended: a return 00EE with stack pointer 0 ends the run in the     *)
(* "Stack underflow" panic, the stack pointer still 0, the stack untouched *)
(* and the program counter as the loop left it before dispatch: the        *)
(* address the opcode was fetched from plus 2.                             *)
C8_StackUnderflow ==
    (prev.opcode = 238 /\ prev.stack_pointer = 0) =>
        /\ status = "Panicked"
        /\ panic.msg = "Stack underflow"
        /\ stack_pointer = 0
        /\ stack = prev.stack
        /\ position_in_memory = prev.at + 2

C8_Witness ==
    /\ prev.opcode = 238
    /\ prev.stack_pointer = 0
    /\ prev.at # ProgramStart
    /\ status = "Panicked"
    /\ position_in_memory = prev.at + 2

(* C9 as claimed: run leaves the Running state only by the halt opcode or  *)
(* by a panic. The loop also breaks once its count passes 100.             *)
C9_LeavesOnlyByHaltOrFault_Claimed ==
    status # "Running" =>
        \/ status = "Halted" /\ prev.opcode = 0
        \/ status = "Panicked" /\ panic # NoPanic

\* the program of the scenario: V0 = 5, V1 = 5, V0 += V1, halt
ScenarioProgram == Bytes(<<24581, 24837, 32788, 0>>)

(* C10: on the program 6005 6105 8014 0000, run ends Halted with V0 = 10,  *)
(* V1 = 5, VF = 0 after exactly four opcodes: it runs while fewer than     *)
(* four are fetched and the fourth halts it.                               *)
C10_Scenario ==
    (memory = ScenarioProgram) =>
        /\ i <= 4
        /\ i < 4 => (status = "Running" /\ ENABLED Next)
        /\ i = 4 =>
            /\ status = "Halted"
            /\ panic = NoPanic
            /\ registers[0] = 10
            /\ registers[1] = 5
            /\ registers[15] = 0
            /\ position_in_memory = ProgramStart + 8

C10_Witness ==
    /\ memory = ScenarioProgram
    /\ status = "Halted"
    /\ i = 4
    /\ registers[0] = 10

\* the opcodes the claim counts as matching no pattern: 0nnn other than 0000, 00E0
\* and 00EE, 5xy1..5xyF, 8xy8..8xyD, 8xyF, 9xy1..9xyF, Exxx, Fxxx
C11_Unmatched(op) ==
    \/ nibble_c(op) = 0 /\ op \notin {0, 224, 238}
    \/ nibble_c(op) \in {5, 9} /\ nibble_d(op) # 0
    \/ nibble_c(op) = 8 /\ nibble_d(op) \in {8, 9, 10, 11, 12, 13, 15}
    \/ nibble_c(op) \in {14, 15}

(* C11: an opcode that matches no implemented pattern ends the run in a    *)
(* panic that carries the opcode, and leaves registers, I, stack, stack    *)
(* pointer, memory and display as they were when it was dispatched.        *)
C11_DecodeFault ==
    [][(Fetched /\ C11_Unmatched(opcode)) =>
            /\ status' = "Panicked"
            /\ panic'.msg = "not yet implemented"
            /\ panic'.opcode = opcode
            /\ registers' = registers
            /\ register_I' = register_I
            /\ stack' = stack
            /\ stack_pointer' = stack_pointer
            /\ memory' = memory
            /\ pixels' = pixels]_vars

C11_Witness ==
    /\ prev.opcode # -1
    /\ C11_Unmatched(prev.opcode)
    /\ nibble_c(prev.opcode) = 15
    /\ status = "Panicked"
    /\ panic.opcode = prev.opcode
    /\ stack_pointer = 1
    /\ registers = prev.registers

-----------------------------------------------------------------------------
(* The last draw, as the draw properties read it.                          *)

LastWasDraw == prev.opcode # -1 /\ nibble_c(prev.opcode) = 13
LastN == nibble_d(prev.opcode)
LastColumn == LastVx % DisplayWidth
LastRow == LastVy % DisplayHeight

\* the <<row, column>> of the set bits of the sprite at I, rows from 0, columns
\* from 0 at the most significant bit
LastSpriteCells ==
    {t \in (0..(LastN - 1)) \X (0..7) :
        (byte_at(memory, prev.register_I + t[1]) \div Pow2(7 - t[2])) % 2 = 1}

\* the pixels under the set bits, where the sprite is put at the start row and column
LastSpritePixels == {<<LastRow + t[1], LastColumn + t[2]>> : t \in LastSpriteCells}

\* those pixels with the ones off the grid dropped, and with them wrapped around
LastSpriteClipped ==
    {t \in LastSpritePixels : t[1] < DisplayHeight /\ t[2] < DisplayWidth}
LastSpriteWrapped ==
    {<<t[1] % DisplayHeight, t[2] % DisplayWidth>> : t \in LastSpritePixels}

\* the pixels px with those of the set S flipped
Toggled(px, S) == (px \ S) \cup (S \ px)

\* the sprite of the last draw goes past the right or the bottom edge
LastDrawPastEdge ==
    \/ LastColumn > DisplayWidth - 8
    \/ LastRow + LastN > DisplayHeight

(* C12 as claimed: a draw whose sprite rectangle goes past the grid        *)
(* completes without a fault, the pixels off the grid dropped or wrapped.  *)
(* The code indexes pixels[y][x] unchecked and panics at the first pixel   *)
(* off the grid, the pixels before it already drawn.                       *)
C12_DrawEdge_Claimed ==
    (LastWasDraw /\ LastDrawPastEdge /\ prev.register_I + LastN <= MemorySize) =>
        /\ Completed
        /\ \/ pixels = Toggled(prev.pixels, LastSpriteClipped)
           \/ pixels = Toggled(prev.pixels, LastSpriteWrapped)

(* C13: a draw Dxyn inside the grid, its sprite in memory, leaves each     *)
(* pixel (column + j, row + i) as its old value XOR bit 7-j of             *)
(* memory[I + i] and every other pixel as it was, and V[F] as 1 if a set   *)
(* bit fell on a lit pixel, else 0, whatever V[F] was.                     *)
C13_DrawSemantics ==
    (LastWasDraw /\ LastDrawInside) =>
        /\ Completed
        /\ pixels = Toggled(prev.pixels, LastSpritePixels)
        /\ registers[15] = (IF LastSpritePixels \cap prev.pixels # {} THEN 1 ELSE 0)

C13_Witness ==
    /\ LastWasDraw
    /\ LastDrawInside
    /\ prev2.opcode # prev.opcode
    /\ registers[15] = 1
    /\ LastSpritePixels \ prev.pixels # {}
    /\ prev.pixels \ LastSpritePixels # {}
    /\ pixels = Toggled(prev.pixels, LastSpritePixels)

\* a draw that finds V[F] set and, with no collision, leaves it 0
C13_WitnessFlagReset ==
    /\ LastWasDraw
    /\ LastDrawInside
    /\ prev.registers[15] # 0
    /\ registers[15] = 0
    /\ LastSpritePixels # {}

-----------------------------------------------------------------------------
(* C14 as claimed: after reverse-subtract 8xy7 on a = V[x], b = V[y]       *)
(* (x not 0xF) the instruction has completed, V[x] is (b - a) mod 256 and  *)
(* V[F] is 1 iff b >= a. The code takes the flag from b > a, and the       *)
(* subtraction panics for b < a where overflow is checked.                 *)
C14_ReverseSub_Claimed ==
    (LastWas(8, 7) /\ LastX # 15) =>
        /\ Completed
        /\ registers[LastX] = (LastVy - LastVx + 256) % 256
        /\ registers[15] = (IF LastVy >= LastVx THEN 1 ELSE 0)

(* C15 as claimed: add-immediate 7xkk never faults, leaves V[x] as         *)
(* (V[x] + kk) mod 256 and every other register as it was. The addition    *)
(* is a plain u8 `+`, which panics above 255 where overflow is checked.    *)
C15_AddImmediate_Claimed ==
    (prev.opcode # -1 /\ nibble_c(prev.opcode) = 7) =>
        /\ Completed
        /\ registers[LastX] = (LastVx + field_kk(prev.opcode)) % 256
        /\ \A r \in 0..(NumRegisters - 1) : r # LastX => registers[r] = prev.registers[r]

\* the condition of the skip opcode op on the registers regs
C16_Condition(op, regs) ==
    LET vx == regs[nibble_x(op)]
        vy == regs[nibble_y(op)]
    IN  CASE nibble_c(op) = 3 -> vx = field_kk(op)
          [] nibble_c(op) = 4 -> vx # field_kk(op)
          [] nibble_c(op) = 5 -> vx = vy
          [] nibble_c(op) = 9 -> vx # vy

\* the last opcode was 3xkk, 4xkk, 5xy0 or 9xy0
LastWasSkip ==
    /\ prev.opcode # -1
    /\ \/ nibble_c(prev.opcode) \in {3, 4}
       \/ nibble_c(prev.opcode) \in {5, 9} /\ nibble_d(prev.opcode) = 0

(* C16: after a skip opcode fetched at p the program counter is p + 4 if   *)
(* its condition holds (V[x] = kk, V[x] # kk, V[x] = V[y], V[x] # V[y],    *)
(* kk the byte of the opcode) and p + 2 if not; registers, I, stack and    *)
(* display are as before.                                                  *)
C16_Skips ==
    LastWasSkip =>
        /\ Completed
        /\ position_in_memory =
                prev.at + (IF C16_Condition(prev.opcode, prev.registers) THEN 4 ELSE 2)
        /\ registers = prev.registers
        /\ register_I = prev.register_I
        /\ stack = prev.stack
        /\ stack_pointer = prev.stack_pointer
        /\ pixels = prev.pixels

C16_Witness ==
    /\ LastWasSkip
    /\ nibble_c(prev.opcode) = 4
    /\ LastVx # field_kk(prev.opcode)
    /\ LastVx # 0
    /\ position_in_memory = prev.at + 4

-----------------------------------------------------------------------------
\* the loop is about to fetch: it is running and its count allows an opcode
AboutToFetch == status = "Running" /\ i < MaxInstructions

(* C17 as claimed: at every fetch of the run loop 0 <= pc <= 4094; no jump, *)
(* call, jump-plus-offset, return or skip brings the machine to a fetch    *)
(* with pc outside that range.                                             *)
C17_PcInRange_Claimed ==
    AboutToFetch => position_in_memory \in 0..(MemorySize - 2)

(* C17, amended: every fetch that reads an opcode has 0 <= pc <= 4094.     *)
(* Jumps, calls, returns and skips can bring the machine to a fetch with   *)
(* pc above 4094 (never above 4350); that fetch reads no opcode and ends   *)
(* the run in the index-out-of-bounds panic, the machine left as it was.   *)
C17_PcInRange ==
    [][AboutToFetch =>
            /\ position_in_memory \in 0..(MemorySize - 1 + 255)
            /\ IF position_in_memory \in 0..(MemorySize - 2)
               THEN prev'.opcode = opcode /\ prev'.at = position_in_memory
               ELSE /\ status' = "Panicked"
                    /\ panic' = Panic("index out of bounds")
                    /\ prev'.opcode = -1
                    /\ position_in_memory' = position_in_memory
                    /\ registers' = registers
                    /\ stack' = stack
                    /\ stack_pointer' = stack_pointer
                    /\ pixels' = pixels]_vars

C17_Witness ==
    /\ status = "Panicked"
    /\ panic = Panic("index out of bounds")
    /\ prev.opcode = -1
    /\ prev2.opcode # -1
    /\ nibble_c(prev2.opcode) = 11
    /\ position_in_memory = MemorySize - 1 + 255

(* C18: the stack pointer is always in 0..16, and every stack slot below   *)
(* it holds the program counter that was current when its call was         *)
(* dispatched: a step leaves the slots below the old stack pointer alone,  *)
(* and a slot it adds is written by a call with the address after it.      *)
C18_StackInvariant ==
    [][/\ stack_pointer' \in 0..StackSize
       /\ stack_pointer' <= stack_pointer + 1
       /\ \A k \in 0..(StackSize - 1) :
            k < stack_pointer' =>
                IF k < stack_pointer
                THEN stack'[k] = stack[k]
                ELSE /\ nibble_c(opcode) = 2
                     /\ stack'[k] = position_in_memory + 2]_vars

C18_Witness ==
    /\ stack_pointer = StackSize
    /\ prev.stack_pointer = StackSize - 1
    /\ prev.at = ProgramStart + 4
    /\ \A k \in 0..(StackSize - 1) : stack[k] = ProgramStart + 6

\* two calls from different addresses, both on the stack
C18_WitnessNested ==
    /\ stack_pointer = 2
    /\ stack[0] = ProgramStart + 2
    /\ stack[1] = ProgramStart + 6

(* C19: the interpreter never writes memory: every step of run, also one   *)
(* that ends in a panic, leaves all of memory as it was.                   *)
C19_MemoryReadOnly ==
    [][memory' = memory]_vars

C19_Witness ==
    /\ status = "Panicked"
    /\ panic = Panic("index out of bounds")
    /\ prev.opcode # -1
    /\ nibble_c(prev.opcode) = 13
    /\ pixels # prev.pixels
    /\ read_opcode(memory, prev.at) = prev.opcode
    /\ read_opcode(memory, ProgramStart) = OpN(10, At(11))

(* C20: run always terminates. The count is 0 only before the first        *)
(* iteration and never passes 101; while the run is going the count is at  *)
(* most 100 and an iteration can be taken; an opcode is dispatched only    *)
(* while the count is at most 100; and with the count above 100 the run is *)
(* over: the machine is as the 100th instruction left it, neither halted   *)
(* nor panicked.                                                           *)
C20_Termination ==
    /\ i \in 0..(MaxInstructions + 1)
    /\ (i = 0) = (prev.at = -1)
    /\ status = "Running" =>
          /\ i <= MaxInstructions
          /\ \/ ENABLED (Break \/ FetchPanic \/ Todo)
             \/ Fetched /\ Implemented(opcode)
    /\ prev.opcode # -1 => i <= MaxInstructions
    /\ i > MaxInstructions =>
          /\ status = "Stopped"
          /\ panic = NoPanic
          /\ prev.opcode = -1
          /\ prev2.opcode # -1
          /\ registers = prev.registers
          /\ register_I = prev.register_I
          /\ position_in_memory = prev.at
          /\ stack = prev.stack
          /\ stack_pointer = prev.stack_pointer
          /\ pixels = prev.pixels
    /\ status = "Stopped" => i > MaxInstructions

C20_Witness ==
    /\ status = "Stopped"
    /\ i = MaxInstructions + 1
    /\ prev2.opcode = OpN(1, At(0))
    /\ position_in_memory = ProgramStart

=============================================================================
